---- MODULE Spec2Model ----
(***************************************************************************)
(* Forward chaining over a knowledge base of definite clauses.             *)
(*                                                                         *)
(*   src/src/clause.py            Clause                                   *)
(*   src/src/knowledge_base.py    KnowledgeBase                            *)
(*   src/src/forward_chaining.py  forward_chaining,                        *)
(*                                forward_chaining_with_trace              *)
(*                                                                         *)
(* A knowledge base is loaded clause by clause (add_clause); then runs of  *)
(* the two engine functions execute against it, one step of the            *)
(* `while agenda` / `for clause` loops at a time.                          *)
(*                                                                         *)
(* Object identity.  load_from_file and every test construct a fresh       *)
(* Clause for each add_clause call, so a Clause object is identified by    *)
(* its position in kb.clauses: the buckets of clauses_by_premise and the   *)
(* per-run `count` dictionary (keyed by the Clause object, which defines   *)
(* no __eq__/__hash__) hold such positions.                                *)
(*                                                                         *)
(* Set iteration order.  kb.facts is a Python set; deque(kb.get_facts())   *)
(* reads it in the set's iteration order, which the language leaves        *)
(* open but which is stable while the set is not modified.  kb.facts is    *)
(* therefore a duplicate-free sequence (the set in its iteration order),   *)
(* and an insertion may produce any order of the new element set.          *)
(***************************************************************************)
EXTENDS Integers, Sequences, FiniteSets, TLC

\* ------------------------------------------------------------------ bounds

\* Symbols that clauses are built from, and a symbol no clause mentions.
Symbols == {"a", "b", "c"}
UnknownSymbol == "z"
Queries == Symbols \cup {UnknownSymbol}

\* Longest premise list of a loaded clause, and most clauses loaded.
MaxPremises == 2
MaxClauses == 3

\* The characters of a line of clause text, and the longest line parsed.  A
\* text is the sequence of its characters.
Chars == {" ", "-", "a", "b"}
MaxLineLen == 7
Lines == UNION {[1..n -> Chars] : n \in 0..MaxLineLen}

\* Most lines of a clause file, and the longest line of one.
MaxFileLines == 2
MaxFileLineLen == 4
FileLines == UNION {[1..n -> Chars] : n \in 0..MaxFileLineLen}
Files == UNION {[1..n -> FileLines] : n \in 0..MaxFileLines}

\* ----------------------------------------------------------------- helpers

Range(s) == {s[i] : i \in DOMAIN s}

\* The iteration orders of a set: every duplicate-free listing of it.
Orders(S) ==
    {f \in [1..Cardinality(S) -> S] : \A i, j \in DOMAIN f : f[i] = f[j] => i = j}

\* A Python dict: a function whose domain is the set of keys.
EmptyDict == [k \in {} |-> FALSE]

DictSet(d, k, v) == [x \in DOMAIN d \cup {k} |-> IF x = k THEN v ELSE d[x]]

\* What a caller holds after a call: a value of its own, or the very object
\* an attribute of the knowledge base is bound to.  add_clause changes
\* self.clauses, self.facts and the buckets in place and rebinds none of
\* them, so such an object is, at any time, what the attribute then holds.
Own(value) == [shared |-> FALSE, value |-> value]

Attribute(name) == [shared |-> TRUE, attribute |-> name]

ValueOf(k, held) == IF held.shared THEN k[held.attribute] ELSE held.value

\* ------------------------------------------------------------------ Clause

\* Clause.__init__
Clause(premise_literals, conclusion_literal) ==
    [premise_literals |-> premise_literals,
     conclusion_literal |-> conclusion_literal,
     known_count |-> 0]

\* Clause.is_fact
is_fact(clause) == Len(clause.premise_literals) = 0

\* Python's None, told apart from every text (no character is "None").
None == <<"None">>

\* str.strip(): the text without its leading and trailing whitespace.
RECURSIVE lstrip(_)
lstrip(text) ==
    IF text # <<>> /\ Head(text) = " " THEN lstrip(Tail(text)) ELSE text

RECURSIVE rstrip(_)
rstrip(text) ==
    IF text # <<>> /\ text[Len(text)] = " "
    THEN rstrip(SubSeq(text, 1, Len(text) - 1))
    ELSE text

strip(text) == rstrip(lstrip(text))

\* str.split(): the runs of non-whitespace characters, in order; word is the
\* run being read, words the runs read so far.
RECURSIVE split_from(_, _, _)
split_from(text, word, words) ==
    LET closed == IF word = <<>> THEN words ELSE Append(words, word)
    IN IF text = <<>> THEN closed
       ELSE IF Head(text) = " " THEN split_from(Tail(text), <<>>, closed)
       ELSE split_from(Tail(text), Append(word, Head(text)), words)

split(text) == split_from(text, <<>>, <<>>)

\* str.startswith for a one-character prefix.
startswith(text, prefix) == text # <<>> /\ Head(text) = prefix

\* Faulty variant of scan_literals: the loop has no break, so tokens after
\* the conclusion are read as well.
RECURSIVE scan_all(_, _, _)
scan_all(literals, premise_literals, conclusion_literal) ==
    IF literals = <<>>
    THEN [premise_literals |-> premise_literals,
          conclusion_literal |-> conclusion_literal]
    ELSE IF startswith(Head(literals), "-")
         THEN scan_all(Tail(literals),
                       Append(premise_literals, Tail(Head(literals))),
                       conclusion_literal)
         ELSE scan_all(Tail(literals), premise_literals, Head(literals))

scan_literals_no_break(literals, premise_literals) ==
    scan_all(literals, premise_literals, None)

\* Clause.from_string, lines 99-109: the loop over the tokens.  A token that
\* starts with '-' is a premise, stored without the '-'; the first other
\* token is the conclusion and ends the loop.
RECURSIVE scan_literals(_, _)
scan_literals(literals, premise_literals) ==
    IF literals = <<>>
    THEN [premise_literals |-> premise_literals, conclusion_literal |-> None]
    ELSE IF startswith(Head(literals), "-")
         THEN scan_literals(Tail(literals),
                            Append(premise_literals, Tail(Head(literals))))
         ELSE [premise_literals |-> premise_literals,
               conclusion_literal |-> Head(literals)]

\* Faulty variant of no_conclusion: the test for tokens is left out.
no_conclusion_any(conclusion_literal, literals) == conclusion_literal = None

\* Clause.from_string, line 112: if conclusion_literal is None and literals
no_conclusion(conclusion_literal, literals) ==
    conclusion_literal = None /\ literals # <<>>

\* Clause.from_string, line 118: the exception raised.  Its message is a
\* literal; values lists what is formatted into it, which is nothing.
ValueError ==
    [type |-> "ValueError",
     message |-> "Definite clause must have exactly one positive literal (conclusion)",
     values |-> <<>>]

\* Clause.from_string.  raised: the call ended in ValueError (error); ret:
\* what was returned, if anything was.
from_string(clause_str) ==
    LET literals == split(strip(clause_str))
        scanned == scan_literals(literals, <<>>)
    IN IF no_conclusion(scanned.conclusion_literal, literals)
       THEN IF Len(literals) = 1 /\ ~startswith(literals[1], "-")
            THEN [raised |-> FALSE, ret |-> <<Clause(<<>>, literals[1])>>]
            ELSE [raised |-> TRUE, ret |-> <<>>, error |-> ValueError]
       ELSE [raised |-> FALSE,
             ret |-> <<Clause(scanned.premise_literals,
                              scanned.conclusion_literal)>>]

\* The clauses the loader may be given.
PremiseLists == UNION {[1..n -> Symbols] : n \in 0..MaxPremises}

ClauseUniverse == {Clause(p, c) : p \in PremiseLists, c \in Symbols}

\* ----------------------------------------------------------- KnowledgeBase

\* KnowledgeBase.__init__
KnowledgeBase ==
    [clauses |-> <<>>,
     clauses_by_premise |-> [k \in {} |-> <<>>],
     facts |-> <<>>]

\* Faulty variant of set_add: the facts set is rebound to the new symbol
\* alone.
set_add_replace(order, x) == {<<x>>}

\* set.add on the facts set: the possible iteration orders afterwards.
set_add(order, x) ==
    IF x \in Range(order) THEN {order} ELSE Orders(Range(order) \cup {x})

\* Faulty variant of index_clause: only the first premise is indexed.
index_clause_first_only(index, literals, id) ==
    IF literals = <<>> THEN index
    ELSE LET lit == Head(literals)
             old == IF lit \in DOMAIN index THEN index[lit] ELSE <<>>
         IN DictSet(index, lit, Append(old, id))

\* Faulty variant of index_clause: the clause is put at the front of each
\* bucket.
RECURSIVE index_clause_prepend(_, _, _)
index_clause_prepend(index, literals, id) ==
    IF literals = <<>> THEN index
    ELSE LET lit == Head(literals)
             old == IF lit \in DOMAIN index THEN index[lit] ELSE <<>>
         IN index_clause_prepend(DictSet(index, lit, <<id>> \o old),
                                 Tail(literals), id)

\* The loop of add_clause over premise_literals: self.clauses_by_premise is a
\* defaultdict(list), so a missing bucket is created, then appended to.
RECURSIVE index_clause(_, _, _)
index_clause(index, literals, id) ==
    IF literals = <<>> THEN index
    ELSE LET lit == Head(literals)
             old == IF lit \in DOMAIN index THEN index[lit] ELSE <<>>
         IN index_clause(DictSet(index, lit, Append(old, id)), Tail(literals), id)

\* KnowledgeBase.add_clause: the knowledge bases it may leave (one per
\* iteration order of the facts set).
add_clause(kb, clause) ==
    LET id == Len(kb.clauses) + 1
        facts == IF is_fact(clause)
                 THEN set_add(kb.facts, clause.conclusion_literal)
                 ELSE {kb.facts}
    IN {[clauses |-> Append(kb.clauses, clause),
         clauses_by_premise |->
             index_clause(kb.clauses_by_premise, clause.premise_literals, id),
         facts |-> f] : f \in facts}

\* Faulty variant of get_facts: the conclusion of every clause is given as a
\* fact, whether the clause has premises or not.
get_facts_conclusions(kb) ==
    Own([i \in 1..Len(kb.clauses) |-> kb.clauses[i].conclusion_literal])

\* KnowledgeBase.load_from_file, lines 60-65, for the lines still to read:
\* a line is stripped, skipped if empty, parsed and added; an exception of
\* from_string is not caught, so it ends the call where it is raised.  The
\* outcomes are given: the knowledge base left (self), whether the call
\* raised, and what.
RECURSIVE load_from_file(_, _)
load_from_file(kb, lines) ==
    IF lines = <<>> THEN {[self |-> kb, raised |-> FALSE]}
    ELSE LET line == strip(Head(lines))
         IN IF line = <<>> THEN load_from_file(kb, Tail(lines))
            ELSE LET parsed == from_string(line)
                 IN IF parsed.raised
                    THEN {[self |-> kb, raised |-> TRUE, error |-> parsed.error]}
                    ELSE UNION {load_from_file(k, Tail(lines)) :
                                   k \in add_clause(kb, parsed.ret[1])}

\* KnowledgeBase.get_facts: return self.facts, the set object itself and not
\* a copy of it.
get_facts(kb) == Attribute("facts")

\* Faulty variant of get_clauses_with_premise: self.clauses_by_premise[symbol],
\* which makes the defaultdict insert an empty bucket for a missing key.
get_clauses_with_premise_getitem(kb, symbol) ==
    IF symbol \in DOMAIN kb.clauses_by_premise
    THEN [ret |-> kb.clauses_by_premise[symbol], self |-> kb, raised |-> FALSE]
    ELSE [ret |-> <<>>,
          self |-> [kb EXCEPT !.clauses_by_premise = DictSet(@, symbol, <<>>)],
          raised |-> FALSE]

\* Faulty variant of get_clauses_with_premise: dict.pop with a default, which
\* takes the bucket out of the index.
get_clauses_with_premise_pop(kb, symbol) ==
    IF symbol \in DOMAIN kb.clauses_by_premise
    THEN [ret |-> kb.clauses_by_premise[symbol],
          self |-> [kb EXCEPT !.clauses_by_premise =
                      [k \in DOMAIN @ \ {symbol} |-> @[k]]],
          raised |-> FALSE]
    ELSE [ret |-> <<>>, self |-> kb, raised |-> FALSE]

\* Faulty variant of get_clauses_with_premise: the bucket is given newest
\* clause first.
get_clauses_with_premise_reversed(kb, symbol) ==
    LET bucket == IF symbol \in DOMAIN kb.clauses_by_premise
                  THEN kb.clauses_by_premise[symbol]
                  ELSE <<>>
    IN [ret |-> [i \in 1..Len(bucket) |-> bucket[Len(bucket) + 1 - i]],
        self |-> kb,
        raised |-> FALSE]

\* Faulty variant of get_clauses_with_premise: the index is read the way a
\* plain dict is subscripted, and a symbol without a bucket raises KeyError.
get_clauses_with_premise_subscript(kb, symbol) ==
    IF symbol \in DOMAIN kb.clauses_by_premise
    THEN [ret |-> kb.clauses_by_premise[symbol], self |-> kb, raised |-> FALSE]
    ELSE [ret |-> <<>>, self |-> kb, raised |-> TRUE]

\* KnowledgeBase.get_clauses_with_premise: dict.get with a default neither
\* inserts a key nor changes the receiver, and raises for no key.  ret is the
\* returned list, self the knowledge base after the call, raised whether the
\* call ended in an exception.
get_clauses_with_premise(kb, symbol) ==
    [ret |-> IF symbol \in DOMAIN kb.clauses_by_premise
             THEN kb.clauses_by_premise[symbol]
             ELSE <<>>,
     self |-> kb,
     raised |-> FALSE]

\* --------------------------------------------------------------- run state

\* One call of an engine function: its locals, its position (pc) and, once it
\* has returned, its return value (ret).  after and pushed are history, not
\* program state: the calls that had returned when this one was made, and
\* the clauses whose conclusion the for loop has put on the agenda, in order.
IdleRun ==
    [pc |-> "idle", fn |-> "", query |-> "", count |-> <<>>,
     inferred |-> EmptyDict, agenda |-> <<>>, inference_path |-> <<>>,
     affected_clauses |-> <<>>, trace |-> <<>>, step |-> 0,
     ret |-> <<>>, after |-> {}, pushed |-> <<>>]

\* Faulty variant of inferred_get: the flag is read as unset whatever it is.
inferred_get_unset(inferred, p) == [value |-> FALSE, self |-> inferred]

\* defaultdict(bool).__getitem__: a missing key is inserted with False.
inferred_get(inferred, p) ==
    IF p \in DOMAIN inferred
    THEN [value |-> inferred[p], self |-> inferred]
    ELSE [value |-> FALSE, self |-> DictSet(inferred, p, FALSE)]

\* Faulty variant of popleft: deque.pop, which takes the newest entry.
popleft_as_pop(agenda) ==
    [value |-> agenda[Len(agenda)],
     self |-> SubSeq(agenda, 1, Len(agenda) - 1)]

\* Faulty variant of popleft: agenda[0], which leaves the head in place.
popleft_as_peek(agenda) == [value |-> Head(agenda), self |-> agenda]

\* deque.popleft: the head is returned and removed.
popleft(agenda) == [value |-> Head(agenda), self |-> Tail(agenda)]

\* -------------------------------------------------------- forward_chaining

\* forward_chaining, lines 26-36: the locals before the loop.  deque(...)
\* copies what get_facts returned, in its iteration order at that time.
forward_chaining_init(kb, query) ==
    [IdleRun EXCEPT
        !.pc = "while",
        !.fn = "forward_chaining",
        !.query = query,
        !.count = [i \in 1..Len(kb.clauses) |->
                      Len(kb.clauses[i].premise_literals)],
        !.inferred = EmptyDict,
        !.agenda = ValueOf(kb, get_facts(kb)),
        !.inference_path = <<>>]

\* Faulty variant of found_path: the query is put at the front of the path.
found_path_in_front(inference_path, p) == <<p>> \o inference_path

\* Faulty variant of found_path: the query is returned unrecorded.
found_path_unappended(inference_path, p) == inference_path

\* forward_chaining, line 44: the query is appended to the path.
found_path(inference_path, p) == Append(inference_path, p)

\* forward_chaining, lines 39-54: one pass of `while agenda` up to the start
\* of the for loop.  Requires a non-empty agenda.
forward_chaining_pop(kb, st) ==
    LET p == popleft(st.agenda).value
        agenda == popleft(st.agenda).self
        popped == [st EXCEPT !.agenda = agenda]
    IN IF p = st.query
       THEN LET path == found_path(st.inference_path, p)
            IN [kb |-> kb,
                st |-> [popped EXCEPT !.inference_path = path,
                                      !.ret = <<TRUE, path>>,
                                      !.pc = "done"]]
       ELSE LET look == inferred_get(st.inferred, p)
            IN IF ~look.value
               THEN LET got == get_clauses_with_premise(kb, p)
                    IN [kb |-> got.self,
                        st |-> [popped EXCEPT
                                  !.inferred = DictSet(look.self, p, TRUE),
                                  !.inference_path = Append(@, p),
                                  !.affected_clauses = got.ret,
                                  !.pc = IF got.ret = <<>> THEN "while"
                                         ELSE "for"]]
               ELSE [kb |-> kb, st |-> [popped EXCEPT !.inferred = look.self]]

\* Faulty variant of count_decrement: the counter embedded in the Clause
\* object (Clause.increment_known_count) is used, so the knowledge base
\* keeps what a call has counted.
count_decrement_known_count(kb, st, clause) ==
    LET known == kb.clauses[clause].known_count + 1
    IN [kb |-> [kb EXCEPT !.clauses[clause].known_count = known],
        count |-> [st.count EXCEPT
                     ![clause] = Len(kb.clauses[clause].premise_literals)
                                 - known]]

\* Faulty variant of count_decrement: the count is raised, not lowered.
count_decrement_raised(kb, st, clause) ==
    [kb |-> kb, count |-> [st.count EXCEPT ![clause] = @ + 1]]

\* Faulty variant of count_decrement: count is keyed by what the clause says
\* (as if Clause defined __eq__ and __hash__), so clauses with the same
\* premises and conclusion share one counter.
count_decrement_by_structure(kb, st, clause) ==
    [kb |-> kb,
     count |-> [c \in DOMAIN st.count |->
                  IF kb.clauses[c] = kb.clauses[clause]
                  THEN st.count[c] - 1
                  ELSE st.count[c]]]

\* forward_chaining, line 56: count[clause] -= 1 writes the run's own
\* dictionary; the Clause object and the knowledge base are not touched.
count_decrement(kb, st, clause) ==
    [kb |-> kb, count |-> [st.count EXCEPT ![clause] = @ - 1]]

\* Faulty variant of premises_known: the test is inverted.
premises_known_inverted(count, clause) == count[clause] # 0

\* Faulty variant of premises_known: the test is off by one, count < 2.
premises_known_below_two(count, clause) == count[clause] < 2

\* Faulty variant of premises_known: the conclusion is pushed at every
\* decrement.
premises_known_always(count, clause) == TRUE

\* forward_chaining, line 59: if count[clause] == 0
premises_known(count, clause) == count[clause] = 0

\* forward_chaining, lines 54-61: the body of the for loop for the next
\* clause of the bucket.
forward_chaining_for(kb, st) ==
    LET clause == Head(st.affected_clauses)
        rest == Tail(st.affected_clauses)
        after == count_decrement(kb, st, clause)
        dec == [st EXCEPT !.count = after.count,
                          !.affected_clauses = rest,
                          !.pc = IF rest = <<>> THEN "while" ELSE "for"]
    IN [kb |-> after.kb,
        st |-> IF premises_known(after.count, clause)
               THEN LET conclusion == kb.clauses[clause].conclusion_literal
                    IN [dec EXCEPT !.agenda = Append(@, conclusion),
                                   !.pushed = Append(@, clause)]
               ELSE dec]

\* forward_chaining, line 64: the agenda is empty.
forward_chaining_return(kb, st) ==
    [kb |-> kb,
     st |-> [st EXCEPT !.ret = <<FALSE, st.inference_path>>, !.pc = "done"]]

\* --------------------------------------------- forward_chaining_with_trace

\* Clause.__str__: the conclusion alone for a fact, otherwise the negated
\* premises joined and the conclusion.  The text is kept as its parts.
clause_str(clause) ==
    IF clause.premise_literals = <<>>
    THEN <<clause.conclusion_literal>>
    ELSE <<"(", clause.premise_literals, ") -> ", clause.conclusion_literal>>

\* {k: v for k, v in inferred.items() if v}
true_entries(inferred) ==
    [k \in {x \in DOMAIN inferred : inferred[x]} |-> TRUE]

\* {str(k): v for k, v in count.items()}: of two clauses with the same text
\* the later one's count is kept.
RECURSIVE count_by_str(_, _, _)
count_by_str(kb, count, i) ==
    IF i = 0 THEN [k \in {} |-> 0]
    ELSE DictSet(count_by_str(kb, count, i - 1),
                 clause_str(kb.clauses[i]), count[i])

\* forward_chaining_with_trace, lines 84-106: the locals before the loop and
\* the 'Initialize' record.
forward_chaining_with_trace_init(kb, query) ==
    LET count == [i \in 1..Len(kb.clauses) |->
                     Len(kb.clauses[i].premise_literals)]
        agenda == ValueOf(kb, get_facts(kb))
    IN [IdleRun EXCEPT
          !.pc = "while",
          !.fn = "forward_chaining_with_trace",
          !.query = query,
          !.count = count,
          !.inferred = EmptyDict,
          !.agenda = agenda,
          !.inference_path = <<>>,
          !.trace = <<[step |-> 0,
                       action |-> <<"Initialize">>,
                       agenda |-> agenda,
                       inferred |-> true_entries(EmptyDict),
                       count |-> count_by_str(kb, count, Len(kb.clauses))]>>,
          !.step = 1]

\* forward_chaining_with_trace, lines 109-144: one pass of `while agenda` up
\* to the start of the for loop.  Requires a non-empty agenda.
forward_chaining_with_trace_pop(kb, st) ==
    LET p == popleft(st.agenda).value
        agenda == popleft(st.agenda).self
        popped == [st EXCEPT
                     !.agenda = agenda,
                     !.trace = Append(@, [step |-> st.step,
                                          action |-> <<"Pop from agenda: ", p>>,
                                          agenda |-> agenda,
                                          current |-> p]),
                     !.step = st.step + 1]
    IN IF p = st.query
       THEN LET path == Append(st.inference_path, p)
                trace == Append(popped.trace,
                                [step |-> popped.step,
                                 action |-> <<"Found query: ", p>>,
                                 result |-> "ENTAILED"])
            IN [kb |-> kb,
                st |-> [popped EXCEPT !.inference_path = path,
                                      !.trace = trace,
                                      !.ret = <<TRUE, path, trace>>,
                                      !.pc = "done"]]
       ELSE LET look == inferred_get(st.inferred, p)
            IN IF ~look.value
               THEN LET got == get_clauses_with_premise(kb, p)
                        inferred == DictSet(look.self, p, TRUE)
                    IN [kb |-> got.self,
                        st |-> [popped EXCEPT
                                  !.inferred = inferred,
                                  !.inference_path = Append(@, p),
                                  !.trace = Append(@,
                                      [step |-> popped.step,
                                       action |-> <<"Infer: ", p>>,
                                       inferred |-> true_entries(inferred)]),
                                  !.step = popped.step + 1,
                                  !.affected_clauses = got.ret,
                                  !.pc = IF got.ret = <<>> THEN "while"
                                         ELSE "for"]]
               ELSE [kb |-> kb, st |-> [popped EXCEPT !.inferred = look.self]]

\* Faulty variant of trace_premises_known: the count before the decrement is
\* tested.
trace_premises_known_old(old_count, new_count) == old_count = 0

\* forward_chaining_with_trace, line 161: if new_count == 0
trace_premises_known(old_count, new_count) == new_count = 0

\* forward_chaining_with_trace, lines 145-172: the body of the for loop for
\* the next clause of affected_clauses.
forward_chaining_with_trace_for(kb, st) ==
    LET clause == Head(st.affected_clauses)
        rest == Tail(st.affected_clauses)
        old_count == st.count[clause]
        new_count == old_count - 1
        text == clause_str(kb.clauses[clause])
        dec == [st EXCEPT
                  !.count[clause] = new_count,
                  !.trace = Append(@, [step |-> st.step,
                                       action |-> <<"Update count for ", text>>,
                                       clause |-> text,
                                       old_count |-> old_count,
                                       new_count |-> new_count]),
                  !.step = st.step + 1,
                  !.affected_clauses = rest,
                  !.pc = IF rest = <<>> THEN "while" ELSE "for"]
    IN [kb |-> kb,
        st |-> IF trace_premises_known(old_count, new_count)
               THEN LET conclusion == kb.clauses[clause].conclusion_literal
                        agenda == Append(dec.agenda, conclusion)
                    IN [dec EXCEPT
                          !.agenda = agenda,
                          !.pushed = Append(@, clause),
                          !.trace = Append(@,
                              [step |-> dec.step,
                               action |-> <<"Add to agenda: ", conclusion>>,
                               reason |-> <<"All premises of ", text,
                                            " are known">>,
                               agenda |-> agenda]),
                          !.step = dec.step + 1]
               ELSE dec]

\* Faulty variant of forward_chaining_with_trace_return: the function
\* returns without recording that the agenda is empty.
forward_chaining_with_trace_return_unrecorded(kb, st) ==
    [kb |-> kb,
     st |-> [st EXCEPT !.ret = <<FALSE, st.inference_path, st.trace>>,
                       !.pc = "done"]]

\* forward_chaining_with_trace, lines 174-180: the agenda is empty.
forward_chaining_with_trace_return(kb, st) ==
    LET trace == Append(st.trace, [step |-> st.step,
                                   action |-> <<"Agenda empty">>,
                                   result |-> "NOT ENTAILED"])
    IN [kb |-> kb,
        st |-> [st EXCEPT !.trace = trace,
                          !.ret = <<FALSE, st.inference_path, trace>>,
                          !.pc = "done"]]

\* ------------------------------------------------------- the two functions

Functions == {"forward_chaining", "forward_chaining_with_trace"}

engine_init(fn, kb, query) ==
    IF fn = "forward_chaining" THEN forward_chaining_init(kb, query)
    ELSE forward_chaining_with_trace_init(kb, query)

engine_pop(kb, st) ==
    IF st.fn = "forward_chaining" THEN forward_chaining_pop(kb, st)
    ELSE forward_chaining_with_trace_pop(kb, st)

engine_for(kb, st) ==
    IF st.fn = "forward_chaining" THEN forward_chaining_for(kb, st)
    ELSE forward_chaining_with_trace_for(kb, st)

engine_return(kb, st) ==
    IF st.fn = "forward_chaining" THEN forward_chaining_return(kb, st)
    ELSE forward_chaining_with_trace_return(kb, st)

\* The next step of a call that has not returned.
engine_step(k, st) ==
    IF st.pc = "for" THEN engine_for(k, st)
    ELSE IF st.agenda # <<>> THEN engine_pop(k, st)
    ELSE engine_return(k, st)

\* A call run from where it is to its return, with no other call running.
RECURSIVE run_alone(_, _)
run_alone(k, st) ==
    IF st.pc = "done" THEN [kb |-> k, st |-> st]
    ELSE LET res == engine_step(k, st) IN run_alone(res.kb, res.st)

\* ------------------------------------------------------------------- state

\* kb: the knowledge base; loading: it is still being loaded; run: the engine
\* calls; client: the last call a client of Clause / KnowledgeBase made
\* outside the engine, with what it was given and what it got back.
VARIABLES kb, loading, run, client

vars == <<kb, loading, run, client>>

\* No call made yet.
NoCall == [op |-> "none"]

\* ----------------------------------------------------------------- actions

\* kb.add_clause(Clause(...)) while the knowledge base is being loaded.
AddClause ==
    /\ loading
    /\ Len(kb.clauses) < MaxClauses
    /\ \E clause \in ClauseUniverse : kb' \in add_clause(kb, clause)
    /\ UNCHANGED <<loading, run, client>>

\* facts = kb.get_facts(): the client holds what was returned; seen is
\* history, the symbols it held when it was returned.
GetFacts ==
    /\ loading
    /\ client' = [op |-> "get_facts",
                  ret |-> get_facts(kb),
                  seen |-> Range(ValueOf(kb, get_facts(kb)))]
    /\ UNCHANGED <<kb, loading, run>>

\* kb.get_clauses_with_premise(symbol)
GetClausesWithPremise(symbol) ==
    /\ loading
    /\ LET got == get_clauses_with_premise(kb, symbol)
       IN /\ kb' = got.self
          /\ client' = [op |-> "get_clauses_with_premise",
                        arg |-> symbol,
                        ret |-> got.ret,
                        raised |-> got.raised]
    /\ UNCHANGED <<loading, run>>

\* Clause.from_string(line)
FromString(line) ==
    /\ LET parsed == from_string(line)
       IN client' = [op |-> "from_string",
                     arg |-> line,
                     ret |-> parsed.ret,
                     raised |-> parsed.raised]
    /\ UNCHANGED <<kb, loading, run>>

\* kb.load_from_file(filename), the file holding the given lines.
LoadFromFile(file) ==
    /\ \E loaded \in load_from_file(kb, file) :
          /\ kb' = loaded.self
          /\ client' = IF loaded.raised
                       THEN [op |-> "load_from_file", arg |-> file,
                             raised |-> TRUE, error |-> loaded.error]
                       ELSE [op |-> "load_from_file", arg |-> file,
                             raised |-> FALSE]
    /\ UNCHANGED <<loading, run>>

\* A function of F is called with a query of Q.
Call(r, F, Q) ==
    /\ run[r].pc = "idle"
    /\ \E fn \in F, query \in Q :
          run' = [run EXCEPT ![r] =
                    [engine_init(fn, kb, query) EXCEPT
                       !.after = {x \in DOMAIN run : run[x].pc = "done"}]]
    /\ loading' = FALSE
    /\ UNCHANGED <<kb, client>>

Apply(r, res) ==
    /\ kb' = res.kb
    /\ run' = [run EXCEPT ![r] = res.st]
    /\ UNCHANGED <<loading, client>>

\* `while agenda`: pop the head and process it.
Pop(r) ==
    /\ run[r].pc = "while"
    /\ run[r].agenda # <<>>
    /\ Apply(r, engine_pop(kb, run[r]))

\* `for clause in ...`: the next clause of the bucket.
ForClause(r) ==
    /\ run[r].pc = "for"
    /\ Apply(r, engine_for(kb, run[r]))

\* `while agenda` fails: return False.
Return(r) ==
    /\ run[r].pc = "while"
    /\ run[r].agenda = <<>>
    /\ Apply(r, engine_return(kb, run[r]))

\* A running call takes its next step, whichever it is.
Step(r) == Pop(r) \/ ForClause(r) \/ Return(r)

\* ---------------------------------------------- load, then one engine call

Init ==
    /\ kb = KnowledgeBase
    /\ loading = TRUE
    /\ run = [r \in {1} |-> IdleRun]
    /\ client = NoCall

Next ==
    \/ AddClause
    \/ Call(1, Functions, Queries)
    \/ Pop(1)
    \/ ForClause(1)
    \/ Return(1)

Spec == Init /\ [][Next]_vars

\* ------------------------------------ load, then one call that must go on

FairNext ==
    \/ AddClause
    \/ Call(1, {"forward_chaining"}, Queries)
    \/ Pop(1)
    \/ ForClause(1)
    \/ Return(1)

\* The interpreter keeps executing a call that has not returned.
FairSpec == Init /\ [][FairNext]_vars /\ WF_vars(Step(1))

\* ------------------------- a client of the knowledge base, no engine call

KbNext ==
    \/ AddClause
    \/ GetFacts
    \/ \E symbol \in Queries : GetClausesWithPremise(symbol)

KbSpec == Init /\ [][KbNext]_vars

\* ------------------------------------------------- one line of clause text

\* The client parses one line, as its first call.
ParseNext == client = NoCall /\ \E line \in Lines : FromString(line)

ParseSpec == Init /\ [][ParseNext]_vars

\* ---------------------------------------------------- one file of clauses

\* A new knowledge base is loaded from one file, as main does.
LoadNext ==
    /\ client = NoCall
    /\ kb = KnowledgeBase
    /\ \E file \in Files : LoadFromFile(file)

LoadSpec == Init /\ [][LoadNext]_vars

\* ------------------------------ the test suite's knowledge bases, two calls

\* tests/test_forward_chaining.py, setUp: a, a -> b, a /\ b -> c, b -> d
SetUpClauses ==
    <<Clause(<<>>, "a"), Clause(<<"a">>, "b"),
      Clause(<<"a", "b">>, "c"), Clause(<<"b">>, "d")>>

\* test_cyclic_knowledge_base: a, a -> b, b -> c, c -> a
CyclicClauses ==
    <<Clause(<<>>, "a"), Clause(<<"a">>, "b"),
      Clause(<<"b">>, "c"), Clause(<<"c">>, "a")>>

\* test_disconnected_knowledge_base: a, b, a -> c, b -> d
DisconnectedClauses ==
    <<Clause(<<>>, "a"), Clause(<<>>, "b"),
      Clause(<<"a">>, "c"), Clause(<<"b">>, "d")>>

\* test_empty_knowledge_base
EmptyClauses == <<>>

TestClauseLists ==
    {SetUpClauses, CyclicClauses, DisconnectedClauses, EmptyClauses}

\* The queries the tests ask; no test knowledge base mentions e.
TestQueries == {"a", "b", "c", "d", "e"}

\* kb = KnowledgeBase(); kb.add_clause(c) for each c of the list, in order:
\* the knowledge bases that may result.
RECURSIVE load_all(_, _)
load_all(kbs, clauses) ==
    IF clauses = <<>> THEN kbs
    ELSE load_all(UNION {add_clause(k, Head(clauses)) : k \in kbs},
                  Tail(clauses))

TestInit ==
    /\ kb \in UNION {load_all({KnowledgeBase}, l) : l \in TestClauseLists}
    /\ loading = FALSE
    /\ run = [r \in {1, 2} |-> IdleRun]
    /\ client = NoCall

\* Two calls against the one knowledge base, their steps interleaved.
TestNext ==
    \/ \E r \in {1, 2} : Call(r, Functions, TestQueries)
    \/ \E r \in {1, 2} : Pop(r)
    \/ \E r \in {1, 2} : ForClause(r)
    \/ \E r \in {1, 2} : Return(r)

TestSpec == TestInit /\ [][TestNext]_vars

\* ================================================================== claims

Done(r) == run[r].pc = "done"

Plain(r) == run[r].fn = "forward_chaining"

Traced(r) == run[r].fn = "forward_chaining_with_trace"

FactSymbols == Range(kb.facts)

\* The conclusions of the clauses all of whose premises are in S.
Fired(clauses, S) ==
    {clauses[i].conclusion_literal :
        i \in {j \in DOMAIN clauses : Range(clauses[j].premise_literals) \subseteq S}}

\* The least set that holds every fact symbol and the conclusion of every
\* clause whose premises are all in the set.
RECURSIVE LeastFixedPointFrom(_, _)
LeastFixedPointFrom(clauses, S) ==
    LET T == S \cup Fired(clauses, S)
    IN IF T = S THEN S ELSE LeastFixedPointFrom(clauses, T)

LeastFixedPoint(clauses) == LeastFixedPointFrom(clauses, {})

\* Position of the first occurrence of x in s (0 if there is none).
IndexOf(s, x) ==
    IF x \in Range(s) THEN CHOOSE i \in DOMAIN s :
                               s[i] = x /\ \A j \in 1..(i - 1) : s[j] # x
    ELSE 0

\* C1: forward_chaining returns is_entailed = True if and only if the query
\* belongs to the least fixed point of the facts under clause firing.
C1_EntailedIffInFixedPoint ==
    \A r \in DOMAIN run :
        Done(r) /\ Plain(r) =>
            (run[r].ret[1] <=> run[r].query \in LeastFixedPoint(kb.clauses))

\* A call has returned True for a query that is no fact and is concluded by a
\* clause with two different premises.
C1_Witness ==
    \E r \in DOMAIN run :
        /\ Done(r) /\ Plain(r) /\ run[r].ret[1]
        /\ run[r].query \notin FactSymbols
        /\ \E i \in DOMAIN kb.clauses :
              /\ kb.clauses[i].conclusion_literal = run[r].query
              /\ Cardinality(Range(kb.clauses[i].premise_literals)) = 2

\* C2: every call that has entered the pop/process loop reaches one of its
\* two returns, also when the clauses form a derivation cycle.
C2_Terminates ==
    (run[1].pc \in {"while", "for"}) ~> (run[1].pc = "done")

\* A call has returned False after a derivation cycle: a clause with premises
\* fired and pushed a fact symbol again, and the agenda was drained.
C2_Witness ==
    /\ Done(1) /\ ~run[1].ret[1]
    /\ \E i \in DOMAIN kb.clauses :
          /\ ~is_fact(kb.clauses[i])
          /\ kb.clauses[i].conclusion_literal \in FactSymbols
          /\ run[1].count[i] = 0

\* C3 as stated: if the query is a fact symbol, the call returns True and
\* the path is exactly <<query>>.
C3_PathIsQueryAlone ==
    \A r \in DOMAIN run :
        Done(r) /\ Plain(r) /\ run[r].query \in FactSymbols =>
            run[r].ret = <<TRUE, <<run[r].query>>>>

\* C3 amended: if the query is a fact symbol, the call returns True and the
\* path is the facts in the order they were placed on the agenda, up to and
\* including the query.
C3_PathIsFactsUpToQuery ==
    \A r \in DOMAIN run :
        Done(r) /\ Plain(r) /\ run[r].query \in FactSymbols =>
            run[r].ret =
                <<TRUE, SubSeq(kb.facts, 1, IndexOf(kb.facts, run[r].query))>>

\* A call has returned for a query that is a fact but not the first fact on
\* the agenda.
C3_Witness ==
    \E r \in DOMAIN run :
        /\ Done(r) /\ Plain(r)
        /\ run[r].query \in FactSymbols
        /\ IndexOf(kb.facts, run[r].query) > 1

\* C4: when forward_chaining returns False, the symbols of the path are
\* exactly the least fixed point, whatever the order of the facts on the
\* agenda was.
C4_PathIsFixedPoint ==
    \A r \in DOMAIN run :
        Done(r) /\ Plain(r) /\ ~run[r].ret[1] =>
            Range(run[r].ret[2]) = LeastFixedPoint(kb.clauses)

\* A call has returned False for a symbol no clause mentions, from two facts
\* and with a derived symbol in the path.
C4_Witness ==
    \E r \in DOMAIN run :
        /\ Done(r) /\ Plain(r) /\ ~run[r].ret[1]
        /\ run[r].query = UnknownSymbol
        /\ Len(kb.facts) = 2
        /\ Range(run[r].ret[2]) \ FactSymbols # {}

\* C5: for the knowledge base {a; a -> b; a /\ b -> c; b -> d}, inserted in
\* that order, forward_chaining(kb, 'd') returns (True, ['a', 'b', 'd']).
C5_PathForD ==
    \A r \in DOMAIN run :
        Done(r) /\ Plain(r) /\ kb.clauses = SetUpClauses /\ run[r].query = "d" =>
            run[r].ret = <<TRUE, <<"a", "b", "d">>>>

\* C6: a second forward_chaining call, made after a first one with the same
\* query has returned, returns the same (entailed, path), order included.
C6_SecondRunSame ==
    \A r1, r2 \in DOMAIN run :
        /\ Done(r1) /\ Done(r2) /\ r1 \in run[r2].after
        /\ Plain(r1) /\ Plain(r2) /\ run[r1].query = run[r2].query
        => run[r2].ret = run[r1].ret

\* Two calls with the same query have returned one after the other, with two
\* facts on the agenda and a derived symbol in the path.
C6_Witness ==
    \E r1, r2 \in DOMAIN run :
        /\ Done(r1) /\ Done(r2) /\ r1 \in run[r2].after
        /\ Plain(r1) /\ Plain(r2) /\ run[r1].query = run[r2].query
        /\ Len(kb.facts) = 2
        /\ Range(run[r2].ret[2]) \ FactSymbols # {}

\* The state of a forward_chaining_with_trace call without what it records:
\* the state of a forward_chaining call.
Untraced(st) ==
    [st EXCEPT !.fn = "forward_chaining",
               !.trace = <<>>,
               !.step = 0,
               !.ret = IF @ = <<>> THEN <<>> ELSE <<@[1], @[2]>>]

\* C7: forward_chaining_with_trace, whenever it may be called, starts from
\* the locals forward_chaining starts from, each of its steps changes count, inferred, agenda and path
\* (and leaves the knowledge base) as the step of forward_chaining does from
\* the same locals, and it returns the verdict and path forward_chaining
\* returns.
C7_TraceOnlyObserves ==
    /\ \A r \in DOMAIN run, q \in Queries :
          run[r].pc = "idle" =>
              Untraced(forward_chaining_with_trace_init(kb, q))
                  = forward_chaining_init(kb, q)
    /\ \A r \in DOMAIN run :
          Traced(r) /\ run[r].pc \in {"while", "for"} =>
              LET traced == engine_step(kb, run[r])
                  plain == engine_step(kb, Untraced(run[r]))
              IN Untraced(traced.st) = plain.st /\ traced.kb = plain.kb
    /\ \A r \in DOMAIN run :
          Traced(r) /\ Done(r) =>
              Untraced(run[r]).ret =
                  run_alone(kb, [forward_chaining_init(kb, run[r].query)
                                   EXCEPT !.after = run[r].after]).st.ret

\* A forward_chaining_with_trace call has returned True after recording a
\* push onto the agenda, with three symbols or more in the path.
C7_Witness ==
    \E r \in DOMAIN run :
        /\ Traced(r) /\ Done(r) /\ run[r].ret[1]
        /\ Len(run[r].ret[2]) >= 3
        /\ \E i \in DOMAIN run[r].trace :
              run[r].trace[i].action[1] = "Add to agenda: "

\* C8: whatever the interleaving of the steps of two calls against one
\* knowledge base, each call returns what it returns when run alone.
C8_InterleavedAsAlone ==
    \A r \in DOMAIN run :
        Done(r) =>
            run[r].ret =
                run_alone(kb, [engine_init(run[r].fn, kb, run[r].query)
                                 EXCEPT !.after = run[r].after]).st.ret

\* Two forward_chaining calls with different queries, each made before the
\* other returned, have both returned, each after two inferences or more.
C8_Witness ==
    /\ DOMAIN run = {1, 2}
    /\ \A r \in DOMAIN run :
          /\ Done(r) /\ Plain(r) /\ run[r].after = {}
          /\ Len(run[r].ret[2]) >= 3
    /\ run[1].query # run[2].query

\* C9: no step of a forward_chaining or forward_chaining_with_trace call
\* changes the knowledge base: clauses (known_count included), facts and
\* clauses_by_premise (its keys included) stay as they were.
C9_KnowledgeBaseUnchanged == [][~loading' => kb' = kb]_vars

\* A call has returned after inferring a symbol that has no bucket in
\* clauses_by_premise.
C9_Witness ==
    \E r \in DOMAIN run :
        /\ Done(r)
        /\ \E p \in Range(run[r].inference_path) :
              /\ p \in DOMAIN run[r].inferred
              /\ run[r].inferred[p]
              /\ p \notin DOMAIN kb.clauses_by_premise

\* C10: when forward_chaining returns True for a query that is no fact
\* symbol, every fact symbol occurs in the path before the query.
C10_FactsBeforeQuery ==
    \A r \in DOMAIN run :
        Done(r) /\ Plain(r) /\ run[r].ret[1] /\ run[r].query \notin FactSymbols =>
            \A f \in FactSymbols :
                /\ IndexOf(run[r].ret[2], f) > 0
                /\ IndexOf(run[r].ret[2], f) < IndexOf(run[r].ret[2], run[r].query)

\* A call has returned True for a derived query with two facts in the
\* knowledge base.
C10_Witness ==
    \E r \in DOMAIN run :
        /\ Done(r) /\ Plain(r) /\ run[r].ret[1]
        /\ run[r].query \notin FactSymbols
        /\ Len(kb.facts) = 2

\* C11: for the knowledge base {a; b; a -> c; b -> d}, forward_chaining(kb, 'd')
\* returns True with a path that holds a, b, c and d, whatever the order of
\* the two facts on the agenda.
C11_PathHasAllFour ==
    \A r \in DOMAIN run :
        /\ Done(r) /\ Plain(r)
        /\ kb.clauses = DisconnectedClauses /\ run[r].query = "d"
        => /\ run[r].ret[1]
           /\ {"a", "b", "c", "d"} \subseteq Range(run[r].ret[2])

\* C12: for the knowledge base {a; a -> b; a /\ b -> c; b -> d}, inserted in
\* that order, forward_chaining and forward_chaining_with_trace with query
\* 'c' both return True with the path ['a', 'b', 'c'].
C12_PathForC ==
    \A r \in DOMAIN run :
        Done(r) /\ kb.clauses = SetUpClauses /\ run[r].query = "c" =>
            /\ run[r].ret[1] = TRUE
            /\ run[r].ret[2] = <<"a", "b", "c">>

\* A forward_chaining call and a forward_chaining_with_trace call with query
\* 'c' have both returned on that knowledge base.
C12_Witness ==
    /\ kb.clauses = SetUpClauses
    /\ \E r1, r2 \in DOMAIN run :
          /\ Done(r1) /\ Plain(r1) /\ run[r1].query = "c"
          /\ Done(r2) /\ Traced(r2) /\ run[r2].query = "c"

\* C13: when no clause of the knowledge base is a fact (as when it has no
\* clause at all), forward_chaining returns (False, []) for every query.
C13_NoFactsNothingInferred ==
    \A r \in DOMAIN run :
        /\ Done(r) /\ Plain(r)
        /\ \A i \in DOMAIN kb.clauses : kb.clauses[i].premise_literals # <<>>
        => run[r].ret = <<FALSE, <<>>>>

\* A call has returned for a query that some clause concludes, on a knowledge
\* base that has clauses but no fact.
C13_Witness ==
    \E r \in DOMAIN run :
        /\ Done(r) /\ Plain(r)
        /\ kb.clauses # <<>>
        /\ \A i \in DOMAIN kb.clauses : kb.clauses[i].premise_literals # <<>>
        /\ \E i \in DOMAIN kb.clauses :
              kb.clauses[i].conclusion_literal = run[r].query

\* The sequence s without its j-th entry.
Without(s, j) ==
    [k \in 1..(Len(s) - 1) |-> IF k < j THEN s[k] ELSE s[k + 1]]

\* How many entries of s are x.
Occurrences(s, x) == Cardinality({k \in DOMAIN s : s[k] = x})

\* C14: a clause inserted a second time (same premises, same conclusion) is
\* an entry of its own in clauses and in the bucket of each of its premises,
\* has a count of its own in a call, and forward_chaining returns, for every
\* query, the verdict it returns on the knowledge base without the second
\* insertion.
C14_DuplicateClauseCountedApart ==
    \A i, j \in DOMAIN kb.clauses :
        i < j /\ kb.clauses[i] = kb.clauses[j] =>
            /\ \A sym \in Range(kb.clauses[j].premise_literals) :
                  /\ Occurrences(kb.clauses_by_premise[sym], j)
                        = Occurrences(kb.clauses[j].premise_literals, sym)
                  /\ Occurrences(kb.clauses_by_premise[sym], i)
                        = Occurrences(kb.clauses[i].premise_literals, sym)
            /\ \A r \in DOMAIN run :
                  run[r].pc # "idle" => {i, j} \subseteq DOMAIN run[r].count
            /\ \A r \in DOMAIN run :
                  Done(r) /\ Plain(r) =>
                      \A k \in load_all({KnowledgeBase}, Without(kb.clauses, j)) :
                          run[r].ret[1] =
                              run_alone(k, forward_chaining_init(k, run[r].query)).st.ret[1]

\* A call has returned True for a symbol that is no fact and is concluded by
\* a clause with premises that was inserted twice.
C14_Witness ==
    \E r \in DOMAIN run :
        /\ Done(r) /\ Plain(r) /\ run[r].ret[1]
        /\ run[r].query \notin FactSymbols
        /\ \E i, j \in DOMAIN kb.clauses :
              /\ i < j /\ kb.clauses[i] = kb.clauses[j]
              /\ kb.clauses[j].premise_literals # <<>>
              /\ kb.clauses[j].conclusion_literal = run[r].query

\* The clauses of k that have symbol among their premises.
ClausesWithPremise(k, symbol) ==
    {i \in DOMAIN k.clauses : symbol \in Range(k.clauses[i].premise_literals)}

\* C15: every clause is in the bucket of each of its premise symbols, every
\* clause of a bucket has the bucket's symbol among its premises, and each
\* bucket lists its clauses in the order they were inserted.
C15_IndexedByEveryPremise ==
    /\ \A i \in DOMAIN kb.clauses :
          \A sym \in Range(kb.clauses[i].premise_literals) :
              /\ sym \in DOMAIN kb.clauses_by_premise
              /\ i \in Range(kb.clauses_by_premise[sym])
    /\ \A sym \in DOMAIN kb.clauses_by_premise :
          /\ Range(kb.clauses_by_premise[sym]) \subseteq ClausesWithPremise(kb, sym)
          /\ \A m, n \in DOMAIN kb.clauses_by_premise[sym] :
                m < n => kb.clauses_by_premise[sym][m] <= kb.clauses_by_premise[sym][n]

\* As many clauses as may be loaded are; one has two different premises and one bucket
\* holds two different clauses.
C15_Witness ==
    /\ Len(kb.clauses) = MaxClauses
    /\ \E i \in DOMAIN kb.clauses :
          Cardinality(Range(kb.clauses[i].premise_literals)) = 2
    /\ \E sym \in DOMAIN kb.clauses_by_premise :
          Cardinality(Range(kb.clauses_by_premise[sym])) = 2

\* C16 as stated: a clause of the knowledge base has no premises if and only
\* if its conclusion is in the facts set.
C16_FactIffConclusionInFacts ==
    \A i \in DOMAIN kb.clauses :
        kb.clauses[i].premise_literals = <<>>
            <=> kb.clauses[i].conclusion_literal \in Range(kb.facts)

\* C16 amended: the facts set holds exactly the conclusions of the clauses
\* without premises; every such clause has its conclusion in the set, and
\* every symbol of the set is the conclusion of one of them.
C16_FactsAreFactConclusions ==
    Range(kb.facts) =
        {kb.clauses[i].conclusion_literal :
            i \in {j \in DOMAIN kb.clauses : kb.clauses[j].premise_literals = <<>>}}

\* Two facts are loaded, and a clause with premises that concludes one of
\* them.
C16_Witness ==
    /\ Len(kb.facts) = 2
    /\ \E i \in DOMAIN kb.clauses :
          /\ kb.clauses[i].premise_literals # <<>>
          /\ kb.clauses[i].conclusion_literal \in Range(kb.facts)

\* C17: what get_facts returned holds, after any later add_clause, exactly
\* the symbols it held when it was returned.
C17_GetFactsIsSnapshot ==
    client.op = "get_facts" => Range(ValueOf(kb, client.ret)) = client.seen

\* C18: get_clauses_with_premise(symbol) raises nothing and returns the
\* clauses that have symbol among their premises; for a symbol that is a
\* premise of no clause it returns the empty list.
C18_BucketOrEmpty ==
    [][\A symbol \in Queries :
          GetClausesWithPremise(symbol) =>
              /\ ~client'.raised
              /\ Range(client'.ret) = ClausesWithPremise(kb, symbol)
              /\ ClausesWithPremise(kb, symbol) = {} => client'.ret = <<>>]_vars

\* The call was made for the symbol no clause mentions, on a knowledge base
\* that has buckets, and returned the empty list.
C18_Witness ==
    /\ client.op = "get_clauses_with_premise"
    /\ client.arg = UnknownSymbol
    /\ client.ret = <<>>
    /\ DOMAIN kb.clauses_by_premise # {}

\* The tokens of a text: its maximal runs of characters other than
\* whitespace, from left to right.
TokenStarts(text) ==
    {i \in DOMAIN text : text[i] # " " /\ (i = 1 \/ text[i - 1] = " ")}

TokenEnd(text, i) ==
    CHOOSE j \in i..Len(text) :
        /\ \A k \in i..j : text[k] # " "
        /\ j = Len(text) \/ text[j + 1] = " "

Tokens(text) ==
    LET starts == TokenStarts(text)
        nth(n) == CHOOSE i \in starts :
                      Cardinality({x \in starts : x < i}) = n - 1
    IN [n \in 1..Cardinality(starts) |->
           SubSeq(text, nth(n), TokenEnd(text, nth(n)))]

Negated(token) == token[1] = "-"

\* C19: on a line with a token that does not start with '-', from_string
\* returns the clause whose premises are the tokens before the first such
\* token, in order and without their '-', and whose conclusion is that
\* token; what follows it is ignored, and a single such token is a fact.
C19_ParsedUpToConclusion ==
    client.op = "from_string" =>
        LET tokens == Tokens(client.arg)
            positive == {i \in DOMAIN tokens : ~Negated(tokens[i])}
        IN positive # {} =>
              LET first == CHOOSE i \in positive : \A x \in positive : i <= x
              IN /\ ~client.raised
                 /\ client.ret =
                       <<Clause([i \in 1..(first - 1) |-> Tail(tokens[i])],
                                tokens[first])>>
                 /\ Len(tokens) = 1 => client.ret[1].premise_literals = <<>>

\* A line of two premises, the conclusion and one more token was parsed.
C19_Witness ==
    /\ client.op = "from_string"
    /\ ~client.raised
    /\ Len(client.ret[1].premise_literals) = 2
    /\ Len(Tokens(client.arg)) = 4

C21_ConclusionIsSymbol ==
    client.op = "from_string" =>
        \/ client.raised
        \/ /\ Len(client.ret) = 1
           /\ client.ret[1].conclusion_literal # None
           /\ client.ret[1].conclusion_literal # <<>>

\* A line with tokens that all start with '-': it has no conclusion.
NoConclusion(line) ==
    /\ Tokens(line) # <<>>
    /\ \A i \in DOMAIN Tokens(line) : Negated(Tokens(line)[i])

\* C22: when a line of the file has no conclusion, load_from_file ends in
\* an error raised to its caller, no clause of that line or of a later one
\* is loaded, and the error carries the text of the first such line.
C22_ErrorCarriesLine ==
    client.op = "load_from_file" =>
        LET bad == {i \in DOMAIN client.arg : NoConclusion(client.arg[i])}
        IN bad # {} =>
              LET first == CHOOSE i \in bad : \A x \in bad : i <= x
              IN /\ client.raised
                 /\ Len(kb.clauses) <= first - 1
                 /\ \E v \in DOMAIN client.error.values :
                       client.error.values[v] \in
                           {client.arg[first], strip(client.arg[first])}

\* C23: the trace of a forward_chaining_with_trace call starts with the
\* 'Initialize' record of step 0; the last record of the returned trace is
\* the 'Found query: q' record with result ENTAILED exactly when the verdict
\* is True, and the 'Agenda empty' record with result NOT ENTAILED exactly
\* when it is False.
C23_TraceFirstAndLast ==
    \A r \in DOMAIN run :
        /\ Traced(r) =>
              /\ run[r].trace # <<>>
              /\ run[r].trace[1].action = <<"Initialize">>
              /\ run[r].trace[1].step = 0
        /\ Traced(r) /\ Done(r) =>
              LET trace == run[r].ret[3]
                  last == trace[Len(trace)]
                  result == IF "result" \in DOMAIN last THEN last.result ELSE ""
              IN /\ trace[1].action = <<"Initialize">> /\ trace[1].step = 0
                 /\ run[r].ret[1] = TRUE <=>
                       /\ result = "ENTAILED"
                       /\ last.action = <<"Found query: ", run[r].query>>
                 /\ run[r].ret[1] = FALSE <=>
                       /\ result = "NOT ENTAILED"
                       /\ last.action = <<"Agenda empty">>

\* A forward_chaining_with_trace call has returned False after pushing a
\* derived symbol.
C23_Witness ==
    \E r \in DOMAIN run :
        /\ Traced(r) /\ Done(r) /\ run[r].ret[1] = FALSE
        /\ \E i \in DOMAIN run[r].ret[3] :
              run[r].ret[3][i].action[1] = "Add to agenda: "

\* The premise occurrences of a clause whose symbol is marked inferred.
InferredPremises(clause, inferred) ==
    {k \in DOMAIN clause.premise_literals :
        /\ clause.premise_literals[k] \in DOMAIN inferred
        /\ inferred[clause.premise_literals[k]]}

\* C24: in every state of a call the count of each clause is between 0 and
\* the number of its premises; no step raises it; and whenever the call is
\* at the head of its loop (or has returned) it is the number of premises
\* less the number of premise occurrences whose symbol is marked inferred.
C24_CountIsPremisesLeft ==
    /\ [](\A r \in DOMAIN run :
            run[r].pc # "idle" =>
                /\ DOMAIN run[r].count = DOMAIN kb.clauses
                /\ \A i \in DOMAIN kb.clauses :
                      /\ run[r].count[i] >= 0
                      /\ run[r].count[i] <= Len(kb.clauses[i].premise_literals)
                      /\ run[r].pc \in {"while", "done"} =>
                            run[r].count[i] =
                                Len(kb.clauses[i].premise_literals)
                                - Cardinality(InferredPremises(kb.clauses[i],
                                                               run[r].inferred)))
    /\ [][\A r \in DOMAIN run :
            run[r].pc # "idle" =>
                \A i \in DOMAIN run[r].count :
                    run'[r].count[i] <= run[r].count[i]]_vars

\* A call is at the head of its loop with one clause of two different
\* premises at count 1 and another clause with premises at count 0.
C24_Witness ==
    \E r \in DOMAIN run :
        /\ run[r].pc = "while"
        /\ \E i, j \in DOMAIN kb.clauses :
              /\ Cardinality(Range(kb.clauses[i].premise_literals)) = 2
              /\ run[r].count[i] = 1
              /\ kb.clauses[j].premise_literals # <<>>
              /\ run[r].count[j] = 0

\* C25: a call that returns True returns a path that ends with the query;
\* it returns at the first pop of the query, which is not marked inferred
\* and whose clauses are not counted down, and nothing left on the agenda
\* gets into the path.
C25_StopsAtQuery ==
    /\ [](\A r \in DOMAIN run :
            /\ run[r].pc \in {"while", "for"} =>
                  run[r].query \notin Range(run[r].inference_path)
            /\ Done(r) /\ run[r].ret[1] =>
                  /\ run[r].ret[2][Len(run[r].ret[2])] = run[r].query
                  /\ Occurrences(run[r].ret[2], run[r].query) = 1
                  /\ ~(/\ run[r].query \in DOMAIN run[r].inferred
                        /\ run[r].inferred[run[r].query]))
    /\ [][\A r \in DOMAIN run :
            /\ run[r].pc = "while"
            /\ run[r].agenda # <<>>
            /\ Head(run[r].agenda) = run[r].query
            /\ run'[r] # run[r]
            => /\ run'[r].pc = "done"
               /\ run'[r].ret[1] = TRUE
               /\ run'[r].ret[2] = Append(run[r].inference_path, run[r].query)
               /\ run'[r].inference_path = run'[r].ret[2]
               /\ run'[r].count = run[r].count
               /\ run'[r].inferred = run[r].inferred
               /\ run'[r].agenda = Tail(run[r].agenda)]_vars

\* A call has returned True with a symbol left on the agenda, for a query
\* that is a premise of some clause.
C25_Witness ==
    \E r \in DOMAIN run :
        /\ Done(r) /\ run[r].ret[1]
        /\ run[r].agenda # <<>>
        /\ ClausesWithPremise(kb, run[r].query) # {}

\* C26: no symbol is twice in the path, while a call runs and in what it
\* returns, whichever the verdict; the pop of a symbol that is already
\* marked inferred changes neither the path nor any count.
C26_PathHasNoRepeats ==
    /\ [](\A r \in DOMAIN run :
            /\ \A m, n \in DOMAIN run[r].inference_path :
                  run[r].inference_path[m] = run[r].inference_path[n] => m = n
            /\ Done(r) => run[r].ret[2] = run[r].inference_path)
    /\ [][\A r \in DOMAIN run :
            /\ run[r].pc = "while"
            /\ run[r].agenda # <<>>
            /\ Head(run[r].agenda) # run[r].query
            /\ Head(run[r].agenda) \in DOMAIN run[r].inferred
            /\ run[r].inferred[Head(run[r].agenda)]
            /\ run'[r] # run[r]
            => /\ run'[r].inference_path = run[r].inference_path
               /\ run'[r].count = run[r].count
               /\ run'[r].inferred = run[r].inferred
               /\ run'[r].agenda = Tail(run[r].agenda)
               /\ run'[r].pc = "while"]_vars

\* A call has returned False after two different clauses with premises
\* pushed the same symbol.
C26_Witness ==
    \E r \in DOMAIN run :
        /\ Done(r) /\ ~run[r].ret[1]
        /\ \E i, j \in DOMAIN kb.clauses :
              /\ i # j
              /\ kb.clauses[i].premise_literals # <<>>
              /\ kb.clauses[j].premise_literals # <<>>
              /\ kb.clauses[i].conclusion_literal = kb.clauses[j].conclusion_literal
              /\ run[r].count[i] = 0 /\ run[r].count[j] = 0

\* The clauses of the knowledge base that have premises.
NonFactClauses == {i \in DOMAIN kb.clauses : kb.clauses[i].premise_literals # <<>>}

\* C27: in one call a clause puts its conclusion on the agenda at most once,
\* and only by its count going from 1 to 0; a clause without premises never
\* does; so the pushes after initialisation are at most as many as the
\* clauses with premises.
C27_PushedOncePerClause ==
    /\ [](\A r \in DOMAIN run :
            /\ \A m, n \in DOMAIN run[r].pushed :
                  run[r].pushed[m] = run[r].pushed[n] => m = n
            /\ Range(run[r].pushed) \subseteq NonFactClauses
            /\ Len(run[r].pushed) <= Cardinality(NonFactClauses))
    /\ [][\A r \in DOMAIN run :
            run[r].pc # "idle" =>
                /\ Len(run'[r].agenda) > Len(run[r].agenda)
                      <=> run'[r].pushed # run[r].pushed
                /\ run'[r].pushed # run[r].pushed =>
                      LET clause == Head(run[r].affected_clauses)
                      IN /\ run[r].pc = "for"
                         /\ run'[r].pushed = Append(run[r].pushed, clause)
                         /\ run'[r].agenda =
                               Append(run[r].agenda,
                                      kb.clauses[clause].conclusion_literal)
                         /\ run[r].count[clause] = 1
                         /\ run'[r].count[clause] = 0]_vars

\* A call has returned with every clause that has premises having pushed,
\* one of them a clause with the same premise twice; there are two such
\* clauses or more.
C27_Witness ==
    \E r \in DOMAIN run :
        /\ Done(r)
        /\ Cardinality(NonFactClauses) >= 2
        /\ Range(run[r].pushed) = NonFactClauses
        /\ \E i \in NonFactClauses :
              /\ Len(kb.clauses[i].premise_literals) = 2
              /\ Cardinality(Range(kb.clauses[i].premise_literals)) = 1

\* C28: every symbol of the path, the query included and whichever the
\* verdict, is a fact symbol or the conclusion of a clause all of whose
\* premises stand earlier in the path; every symbol on the agenda or in the
\* path is in the least fixed point of the knowledge base.
C28_PathIsDerivation ==
    \A r \in DOMAIN run :
        /\ \A n \in DOMAIN run[r].inference_path :
              \/ run[r].inference_path[n] \in FactSymbols
              \/ \E i \in NonFactClauses :
                    /\ kb.clauses[i].conclusion_literal = run[r].inference_path[n]
                    /\ Range(kb.clauses[i].premise_literals) \subseteq
                          {run[r].inference_path[m] : m \in 1..(n - 1)}
        /\ Range(run[r].agenda) \cup Range(run[r].inference_path)
              \subseteq LeastFixedPoint(kb.clauses)
        /\ Done(r) => run[r].ret[2] = run[r].inference_path

\* A call has returned True for a query that is no fact and is concluded
\* only by clauses with two different premises.
C28_Witness ==
    \E r \in DOMAIN run :
        /\ Done(r) /\ run[r].ret[1]
        /\ run[r].query \notin FactSymbols
        /\ \A i \in DOMAIN kb.clauses :
              kb.clauses[i].conclusion_literal = run[r].query =>
                  Cardinality(Range(kb.clauses[i].premise_literals)) = 2

\* The symbols that have a derivation of depth k or less: the conclusions of
\* the clauses without premises for k = 0, and for k + 1 also the conclusions
\* of the clauses whose premises all have depth k or less.
RECURSIVE WithinDepth(_, _)
WithinDepth(clauses, k) ==
    IF k = 0 THEN Fired(clauses, {})
    ELSE WithinDepth(clauses, k - 1) \cup Fired(clauses, WithinDepth(clauses, k - 1))

\* depth(s): 0 for a fact symbol, otherwise the least, over the clauses that
\* conclude s, of 1 + the greatest depth of the clause's premises.
Depth(clauses, s) ==
    CHOOSE k \in 0..Len(clauses) :
        /\ s \in WithinDepth(clauses, k)
        /\ k > 0 => s \notin WithinDepth(clauses, k - 1)

\* C29: along the path of a call the derivation depths of the symbols never
\* go down.
C29_PathByDepth ==
    \A r \in DOMAIN run :
        /\ Range(run[r].inference_path) \subseteq LeastFixedPoint(kb.clauses)
        /\ \A m, n \in DOMAIN run[r].inference_path :
              m < n => Depth(kb.clauses, run[r].inference_path[m])
                         <= Depth(kb.clauses, run[r].inference_path[n])
        /\ Done(r) => run[r].ret[2] = run[r].inference_path

\* A call has returned a path with symbols of depth 0, 1 and 2.
C29_Witness ==
    \E r \in DOMAIN run :
        /\ Done(r)
        /\ {Depth(kb.clauses, run[r].ret[2][n]) : n \in DOMAIN run[r].ret[2]}
              = {0, 1, 2}

====
